---- MODULE Spec2Model ----
(***************************************************************************)
(* A model of benwebber/bitboard: the util package (bit primitives,        *)
(* population count, flips and rotations, coordinate conversions) and the  *)
(* Bitboard aggregate (New, the game presets, place / remove / move).      *)
(*                                                                         *)
(* A uint64 is modelled as the set of its 1 bits, a subset of 0..63: the   *)
(* bitwise operators are set operators, shifts move the elements and drop  *)
(* those that leave 0..63, and + - * are ripple-carry arithmetic modulo    *)
(* 2^64.  A Go string is a sequence of one-character strings.              *)
(***************************************************************************)
EXTENDS Integers, Sequences, FiniteSets, TLC

VARIABLES
    b,       \* the Bitboard the caller holds (a preset, then mutated in place)
    calls,   \* number of place / remove / move calls made on b
    misuse,  \* ghost: which caller preconditions have been broken so far
    rt,      \* ghost: a PlacePieceBit on an empty square and its RemovePieceBit
    last,    \* ghost: the last call made on b
    got,     \* the GetBitmapIndex call made on b after the other calls: [p, i, at]
    args,    \* the arguments of the last call of New
    ret,     \* what the last call of New returned: [b, err]
    dims,    \* coordinate conversions: the board extent [ranks, files]
    hist,    \* coordinate conversions: the positions converted so far
    i,       \* bit operations: the 64-bit word operated on
    out,     \* bit operations: the function last called on i and its result
    edits    \* bit operations: number of SetBit / ClearBit / ToggleBit calls

vars == <<b, calls, misuse, rt, last, got, args, ret, dims, hist, i, out, edits>>

boardVars == <<b, calls, misuse, rt, last, got>>
newVars   == <<args, ret>>
coordVars == <<dims, hist>>
bitVars   == <<i, out, edits>>

-----------------------------------------------------------------------------
(* Bounds of the model.                                                    *)

\* calls made on one board
MaxCalls == 2
\* the squares addressed are the first MaxDiag+1 squares of the a1-h8 diagonal
MaxDiag == 1
\* a call names one of the first MaxCat+1 categories, the last category, or a
\* category holding the square addressed
MaxCat == 0
\* New is called with ranks and files in -MaxDim..MaxDim
MaxDim == 9
\* coordinate conversions applied in a row
MaxConv == 2
\* SetBit / ClearBit / ToggleBit calls applied to one word
MaxEdits == 1

-----------------------------------------------------------------------------
(* uint64 as the set of its 1 bits.                                        *)

WordBits == 64

Positions == 0 .. (WordBits - 1)

Zero == {}

AllOnes == Positions

\* uint64(0xAAAABBBBCCCCDDDD), written W(\hAAAA, \hBBBB, \hCCCC, \hDDDD)
W(h3, h2, h1, h0) ==
    LET limb == <<h0, h1, h2, h3>>
    IN  { n \in Positions : (limb[(n \div 16) + 1] \div (2 ^ (n % 16))) % 2 = 1 }

And(x, y) == x \cap y

Or(x, y) == x \cup y

Xor(x, y) == (x \ y) \cup (y \ x)

Not(x) == Positions \ x

\* x << k and x >> k; Go defines a shift by 64 or more as 0
Shl(x, k) == { n + k : n \in x } \cap Positions

Shr(x, k) == { n - k : n \in x } \cap Positions

\* 1 << uint(p): for p outside 0..63, uint(p) is 64 or more and the result is 0
Bit(p) == IF p \in Positions THEN {p} ELSE {}

RECURSIVE AddFrom(_, _, _, _)
AddFrom(x, y, k, c) ==
    IF k = WordBits THEN {}
    ELSE LET s == (IF k \in x THEN 1 ELSE 0) + (IF k \in y THEN 1 ELSE 0) + c
         IN  (IF s % 2 = 1 THEN {k} ELSE {}) \cup AddFrom(x, y, k + 1, s \div 2)

\* x + y modulo 2^64
Add(x, y) == AddFrom(x, y, 0, 0)

\* x - y modulo 2^64
Sub(x, y) == AddFrom(x, Not(y), 0, 1)

\* n * x modulo 2^64, for a constant n >= 0: binary multiplication
RECURSIVE Times(_, _)
Times(n, x) ==
    IF n = 0 THEN Zero
    ELSE IF n = 1 THEN x
    ELSE IF n % 2 = 0 THEN Shl(Times(n \div 2, x), 1)
    ELSE Add(x, Shl(Times(n \div 2, x), 1))

\* int(x) of a word
RECURSIVE ToInt(_)
ToInt(x) ==
    IF x = {} THEN 0
    ELSE LET n == CHOOSE n \in x : TRUE IN 2 ^ n + ToInt(x \ {n})

-----------------------------------------------------------------------------
(* util: bit operations.                                                   *)

\* uint64(n) for 0 <= n < 2^31
Uint64(n) == { k \in 0..30 : (n \div (2 ^ k)) % 2 = 1 }

\* SetBit with the mask p in place of 1 << p
SetBit_MaskIsP(x, p) == Or(x, Uint64(p))

SetBit(x, p) == Or(x, Bit(p))

ClearBit(x, p) == And(x, Not(Bit(p)))

ToggleBit(x, p) == Xor(x, Bit(p))

GetBit(x, p) == ToInt(And(Shr(x, p), Bit(0)))

IsBitSet(x, p) == And(x, Bit(p)) # Zero

\* Union that assigns each value instead of or-ing it in
Union_LastOnly(s) == IF s = <<>> THEN Zero ELSE s[Len(s)]

RECURSIVE Union(_)
Union(s) == IF s = <<>> THEN Zero ELSE Or(Union(SubSeq(s, 1, Len(s) - 1)), s[Len(s)])

\* PopCount with the result cut to six bits: 64 does not fit
PopCount_SixBits(x) ==
    LET mask1 == W(\h5555, \h5555, \h5555, \h5555)
        mask2 == W(\h3333, \h3333, \h3333, \h3333)
        mask4 == W(\h0f0f, \h0f0f, \h0f0f, \h0f0f)
        i1 == Sub(x, And(Shr(x, 1), mask1))
        i2 == Add(And(i1, mask2), And(Shr(i1, 2), mask2))
        i3 == And(Add(i2, Shr(i2, 4)), mask4)
        i4 == Add(i3, Shr(i3, 8))
        i5 == Add(i4, Shr(i4, 16))
        i6 == Add(i5, Shr(i5, 32))
    IN  ToInt(And(i6, W(\h0000, \h0000, \h0000, \h003f)))

\* PopCount: the divide-and-conquer Hamming weight
PopCount(x) ==
    LET mask1 == W(\h5555, \h5555, \h5555, \h5555)
        mask2 == W(\h3333, \h3333, \h3333, \h3333)
        mask4 == W(\h0f0f, \h0f0f, \h0f0f, \h0f0f)
        i1 == Sub(x, And(Shr(x, 1), mask1))
        i2 == Add(And(i1, mask2), And(Shr(i1, 2), mask2))
        i3 == And(Add(i2, Shr(i2, 4)), mask4)
        i4 == Add(i3, Shr(i3, 8))
        i5 == Add(i4, Shr(i4, 16))
        i6 == Add(i5, Shr(i5, 32))
    IN  ToInt(And(i6, W(\h0000, \h0000, \h0000, \h007f)))

-----------------------------------------------------------------------------
(* util: flipping and rotating.                                            *)

FlipVertical(x) ==
    LET k1 == W(\h00FF, \h00FF, \h00FF, \h00FF)
        k2 == W(\h0000, \hFFFF, \h0000, \hFFFF)
        i1 == Or(And(Shr(x, 8), k1), Shl(And(x, k1), 8))
        i2 == Or(And(Shr(i1, 16), k2), Shl(And(i1, k2), 16))
    IN  Or(Shr(i2, 32), Shl(i2, 32))

\* FlipHorizontal with the pairs moved up by one place instead of two
FlipHorizontal_WrongFactor(x) ==
    LET k1 == W(\h5555, \h5555, \h5555, \h5555)
        k2 == W(\h3333, \h3333, \h3333, \h3333)
        k4 == W(\h0f0f, \h0f0f, \h0f0f, \h0f0f)
        i1 == Add(And(Shr(x, 1), k1), Times(2, And(x, k1)))
        i2 == Add(And(Shr(i1, 2), k2), Times(2, And(i1, k2)))
    IN  Add(And(Shr(i2, 4), k4), Times(16, And(i2, k4)))

FlipHorizontal(x) ==
    LET k1 == W(\h5555, \h5555, \h5555, \h5555)
        k2 == W(\h3333, \h3333, \h3333, \h3333)
        k4 == W(\h0f0f, \h0f0f, \h0f0f, \h0f0f)
        i1 == Add(And(Shr(x, 1), k1), Times(2, And(x, k1)))
        i2 == Add(And(Shr(i1, 2), k2), Times(4, And(i1, k2)))
    IN  Add(And(Shr(i2, 4), k4), Times(16, And(i2, k4)))

FlipDiagonalA1H8(x) ==
    LET k1 == W(\h5500, \h5500, \h5500, \h5500)
        k2 == W(\h3333, \h0000, \h3333, \h0000)
        k4 == W(\h0f0f, \h0f0f, \h0000, \h0000)
        t1 == And(k4, Xor(x, Shl(x, 28)))
        i1 == Xor(x, Xor(t1, Shr(t1, 28)))
        t2 == And(k2, Xor(i1, Shl(i1, 14)))
        i2 == Xor(i1, Xor(t2, Shr(t2, 14)))
        t3 == And(k1, Xor(i2, Shl(i2, 7)))
    IN  Xor(i2, Xor(t3, Shr(t3, 7)))

FlipDiagonalA8H1(x) ==
    LET k1 == W(\haa00, \haa00, \haa00, \haa00)
        k2 == W(\hcccc, \h0000, \hcccc, \h0000)
        k4 == W(\hf0f0, \hf0f0, \h0f0f, \h0f0f)
        t1 == Xor(x, Shl(x, 36))
        i1 == Xor(x, And(k4, Xor(t1, Shr(x, 36))))
        t2 == And(k2, Xor(i1, Shl(i1, 18)))
        i2 == Xor(i1, Xor(t2, Shr(t2, 18)))
        t3 == And(k1, Xor(i2, Shl(i2, 9)))
    IN  Xor(i2, Xor(t3, Shr(t3, 9)))

Rotate180(x) == FlipHorizontal(FlipVertical(x))

\* Rotate90 with the two flips composed the other way round
Rotate90_FlipVerticalFirst(x) == FlipDiagonalA1H8(FlipVertical(x))

Rotate90(x) == FlipVertical(FlipDiagonalA1H8(x))

Rotate270(x) == FlipDiagonalA1H8(FlipVertical(x))

-----------------------------------------------------------------------------
(* util: coordinate conversions.                                           *)

\* the file letters of algebraic notation
symbols == <<"a", "b", "c", "d", "e", "f", "g", "h">>

Digits == <<"0", "1", "2", "3", "4", "5", "6", "7", "8", "9">>

\* Go's integer division truncates toward zero; % takes the dividend's sign
GoDiv(n, d) == IF n >= 0 THEN n \div d ELSE -((-n) \div d)

GoMod(n, d) == n - d * GoDiv(n, d)

\* fmt's %v of a non-negative int: its decimal digits
RECURSIVE FormatNat(_)
FormatNat(n) ==
    IF n < 10 THEN <<Digits[n + 1]>>
    ELSE Append(FormatNat(n \div 10), Digits[(n % 10) + 1])

\* fmt's %v of an int
FormatInt(n) == IF n < 0 THEN <<"-">> \o FormatNat(-n) ELSE FormatNat(n)

\* strconv.Atoi of a one-character string, its error dropped: 0 unless a digit
Atoi1(c) ==
    IF \E d \in 1..10 : Digits[d] = c
    THEN (CHOOSE d \in 1..10 : Digits[d] = c) - 1
    ELSE 0

AlgebraicToCartesian(pos, files) ==
    LET x == IF \E k \in 1..Len(symbols) : symbols[k] = pos[1]
             THEN (CHOOSE k \in 1..Len(symbols) : symbols[k] = pos[1]) - 1
             ELSE 0
        y == Atoi1(pos[2])
    IN  <<x, y - 1>>

CartesianToBit(x, y, files) == y * files + x

AlgebraicToBit(pos, files) ==
    LET c == AlgebraicToCartesian(pos, files)
    IN  CartesianToBit(c[1], c[2], files)

\* BitToCartesian returning the 1-based rank
BitToCartesian_OneBasedRank(p, files) == <<GoMod(p, files), GoDiv(p, files) + 1>>

BitToCartesian(p, files) == <<GoMod(p, files), GoDiv(p, files)>>

\* CartesianToAlgebraic printing the 0-based rank
CartesianToAlgebraic_ZeroBasedRank(x, y, files) == <<symbols[x + 1]>> \o FormatInt(y)

CartesianToAlgebraic(x, y, files) == <<symbols[x + 1]>> \o FormatInt(y + 1)

BitToAlgebraic(p, files) ==
    LET c == BitToCartesian(p, files)
    IN  CartesianToAlgebraic(c[1], c[2], files)

-----------------------------------------------------------------------------
(* bitboard: the Bitboard aggregate.  Category m of the code (0-based) is  *)
(* Bitmaps[m + 1] here.                                                    *)

\* the struct's fields, a preset's literals filled in
Bitboard(bitmaps, syms, ranks, files) ==
    [Bitmaps |-> bitmaps, Symbols |-> syms, Occupied |-> Union(bitmaps),
     Ranks |-> ranks, Files |-> files]

\* NewChessBoard with a digit of the white pawns' literal mistyped
NewChessBoard_SevenWhitePawns ==
    Bitboard(<< W(\h0000, \h0000, \h0000, \h0081),
                W(\h0000, \h0000, \h0000, \h0042),
                W(\h0000, \h0000, \h0000, \h0024),
                W(\h0000, \h0000, \h0000, \h0008),
                W(\h0000, \h0000, \h0000, \h0010),
                W(\h0000, \h0000, \h0000, \hfe00),
                W(\h8100, \h0000, \h0000, \h0000),
                W(\h4200, \h0000, \h0000, \h0000),
                W(\h2400, \h0000, \h0000, \h0000),
                W(\h0800, \h0000, \h0000, \h0000),
                W(\h1000, \h0000, \h0000, \h0000),
                W(\h00ff, \h0000, \h0000, \h0000) >>,
             <<"R", "N", "B", "Q", "K", "P", "r", "n", "b", "q", "k", "p">>,
             8, 8)

NewChessBoard ==
    Bitboard(<< W(\h0000, \h0000, \h0000, \h0081),
                W(\h0000, \h0000, \h0000, \h0042),
                W(\h0000, \h0000, \h0000, \h0024),
                W(\h0000, \h0000, \h0000, \h0008),
                W(\h0000, \h0000, \h0000, \h0010),
                W(\h0000, \h0000, \h0000, \hff00),
                W(\h8100, \h0000, \h0000, \h0000),
                W(\h4200, \h0000, \h0000, \h0000),
                W(\h2400, \h0000, \h0000, \h0000),
                W(\h0800, \h0000, \h0000, \h0000),
                W(\h1000, \h0000, \h0000, \h0000),
                W(\h00ff, \h0000, \h0000, \h0000) >>,
             <<"R", "N", "B", "Q", "K", "P", "r", "n", "b", "q", "k", "p">>,
             8, 8)

NewCheckersBoard ==
    Bitboard(<< W(\haa55, \haa00, \h0000, \h0000),
                W(\h0000, \h0000, \h0055, \haa55) >>,
             <<"R", "W">>, 8, 8)

NewOthelloBoard ==
    Bitboard(<< W(\h0000, \h0010, \h0800, \h0000),
                W(\h0000, \h0008, \h1000, \h0000) >>,
             <<"B", "W">>, 8, 8)

NewReversiBoard ==
    Bitboard(<< W(\h0000, \h0000, \h0000, \h0000),
                W(\h0000, \h0000, \h0000, \h0000) >>,
             <<"B", "W">>, 8, 8)

NewTicTacToeBoard ==
    Bitboard(<< W(\h0000, \h0000, \h0000, \h0000),
                W(\h0000, \h0000, \h0000, \h0000) >>,
             <<"X", "O">>, 3, 3)

NewConnectFourBoard ==
    Bitboard(<< W(\h0000, \h0000, \h0000, \h0000),
                W(\h0000, \h0000, \h0000, \h0000) >>,
             <<"R", "Y">>, 6, 7)

Presets ==
    { NewChessBoard, NewCheckersBoard, NewOthelloBoard, NewReversiBoard,
      NewTicTacToeBoard, NewConnectFourBoard }

\* the first category holding square p, in Bitmaps order, or -1
RECURSIVE ScanBitmaps(_, _, _)
ScanBitmaps(bd, p, k) ==
    IF k >= Len(bd.Bitmaps) THEN -1
    ELSE IF GetBit(bd.Bitmaps[k + 1], p) # 0 THEN k
    ELSE ScanBitmaps(bd, p, k + 1)

\* GetBitmapIndex whose scan starts at the second bitmap
GetBitmapIndex_ScanFromOne(bd, p) ==
    IF GetBit(bd.Occupied, p) = 0 THEN -1 ELSE ScanBitmaps(bd, p, 1)

GetBitmapIndex(bd, p) ==
    IF GetBit(bd.Occupied, p) = 0 THEN -1 ELSE ScanBitmaps(bd, p, 0)

\* the return statement of GetBitmapIndex that GetBitmapIndex(bd, p) leaves by
GetBitmapIndexReturn(bd, p) ==
    IF GetBit(bd.Occupied, p) = 0 THEN "unoccupied"
    ELSE IF ScanBitmaps(bd, p, 0) # -1 THEN "match"
    ELSE "not found"

\* GetBitmapIndex of package board64: the scan alone, there is no Occupied
Board64GetBitmapIndex(bd, p) == ScanBitmaps(bd, p, 0)

\* PlacePieceBit that leaves Occupied alone
PlacePieceBit_SkipsOccupied(bd, m, p) ==
    [bd EXCEPT !.Bitmaps[m + 1] = SetBit(@, p)]

PlacePieceBit(bd, m, p) ==
    [bd EXCEPT !.Occupied = SetBit(@, p), !.Bitmaps[m + 1] = SetBit(@, p)]

PlacePieceCartesian(bd, m, x, y) ==
    PlacePieceBit(bd, m, CartesianToBit(x, y, bd.Files))

PlacePieceAlgebraic(bd, m, pos) ==
    PlacePieceBit(bd, m, AlgebraicToBit(pos, bd.Files))

\* RemovePieceBit that leaves Occupied alone
RemovePieceBit_SkipsOccupied(bd, m, p) ==
    [bd EXCEPT !.Bitmaps[m + 1] = ClearBit(@, p)]

\* RemovePieceBit that clears the square in every category bitmap
RemovePieceBit_ClearsEveryBitmap(bd, m, p) ==
    [bd EXCEPT !.Occupied = ClearBit(@, p),
               !.Bitmaps = [k \in DOMAIN @ |-> ClearBit(@[k], p)]]

RemovePieceBit(bd, m, p) ==
    [bd EXCEPT !.Occupied = ClearBit(@, p), !.Bitmaps[m + 1] = ClearBit(@, p)]

RemovePieceCartesian(bd, m, x, y) ==
    RemovePieceBit(bd, m, CartesianToBit(x, y, bd.Files))

RemovePieceAlgebraic(bd, m, pos) ==
    RemovePieceBit(bd, m, AlgebraicToBit(pos, bd.Files))

MovePieceBit(bd, m, p1, p2) ==
    PlacePieceBit(RemovePieceBit(bd, m, p1), m, p2)

MovePieceCartesian(bd, m, x1, y1, x2, y2) ==
    PlacePieceCartesian(RemovePieceCartesian(bd, m, x1, y1), m, x2, y2)

\* MovePieceAlgebraic with from and to taken the wrong way round
MovePieceAlgebraic_FromAndToSwapped(bd, m, pos1, pos2) ==
    PlacePieceAlgebraic(RemovePieceAlgebraic(bd, m, pos2), m, pos1)

MovePieceAlgebraic(bd, m, pos1, pos2) ==
    PlacePieceAlgebraic(RemovePieceAlgebraic(bd, m, pos1), m, pos2)

\* the largest board, in squares
MaxSquares == 64

\* New: a pointer is <<>> (nil) or <<the Bitboard>>, an error <<>> or <<message>>
New(ranks, files) ==
    LET b0   == [Bitmaps |-> <<>>, Symbols |-> <<>>, Occupied |-> Zero,
                 Ranks |-> 0, Files |-> 0]
        err1 == IF ranks < 0
                THEN <<"bitboard: number of ranks must be greater than zero">>
                ELSE <<>>
        err2 == IF files < 0
                THEN <<"bitboard: number of files must be greater than zero">>
                ELSE err1
        err3 == IF ranks * files > MaxSquares
                THEN <<"bitboard: bitboards cannot be larger than 64 squares">>
                ELSE err2
    IN  [b |-> <<[b0 EXCEPT !.Ranks = ranks, !.Files = files]>>, err |-> err3]

-----------------------------------------------------------------------------
(* The values the variables of one part hold while another part runs.      *)

NoRT == [stage |-> "none", m |-> -1, p |-> -1, bm |-> Zero, occ |-> Zero]

NoCall == [op |-> "none", m |-> -1, from |-> -1, to |-> -1]

NoGot == [p |-> -1, i |-> -1, at |-> "none"]

BoardIdle ==
    /\ b = NewReversiBoard
    /\ calls = 0
    /\ misuse = [place |-> FALSE, remove |-> FALSE]
    /\ rt = NoRT
    /\ last = NoCall
    /\ got = NoGot

NewIdle == args = <<8, 8>> /\ ret = New(8, 8)

CoordIdle ==
    /\ dims = [ranks |-> 8, files |-> 8]
    /\ hist = <<[cs |-> "bit", v |-> 0]>>

NoResult == [fn |-> "none", val |-> 0]

BitIdle == i = Zero /\ out = NoResult /\ edits = 0

-----------------------------------------------------------------------------
(* Spec: a preset board and the calls made on it.  Every call names an     *)
(* in-range category and in-range squares; the squares are taken from the  *)
(* a1-h8 diagonal, in each of the three addressings.  A run makes its      *)
(* place / remove / move calls and then looks a square up with             *)
(* GetBitmapIndex: the lookup changes nothing on the board, so the calls a *)
(* caller makes after one lead to the boards they lead to without it.      *)

Cats(bd) == 0 .. (Len(bd.Bitmaps) - 1)

Squares(bd) == 0 .. (bd.Ranks * bd.Files - 1)

\* the squares addressed: the k-th square of the diagonal, for k in Diag(bd)
Diag(bd) == { k \in 0..MaxDiag : k < bd.Ranks /\ k < bd.Files }

\* ... as a bit index: 0, Files + 1, 2 * (Files + 1), ...
DiagBit(bd, k) == k * (bd.Files + 1)

\* ... in Cartesian coordinates: (0, 0), (1, 1), (2, 2), ...
DiagCartesian(k) == <<k, k>>

\* ... in algebraic notation: a1, b2, c3, ...
DiagAlgebraic(k) == <<symbols[k + 1], Digits[k + 2]>>

\* the categories a call on square p names
CatInputs(bd, p) ==
    { m \in Cats(bd) :
        m <= MaxCat \/ m = Len(bd.Bitmaps) - 1 \/ IsBitSet(bd.Bitmaps[m + 1], p) }

\* square p is held by a category other than m
HeldByOther(bd, m, p) ==
    \E k \in Cats(bd) \ {m} : IsBitSet(bd.Bitmaps[k + 1], p)

\* square p is empty: clear in Occupied and in every category bitmap
IsEmpty(bd, p) ==
    /\ ~IsBitSet(bd.Occupied, p)
    /\ \A k \in Cats(bd) : ~IsBitSet(bd.Bitmaps[k + 1], p)

\* The bookkeeping of one call of category m that removes at bit p1 and then
\* places at bit p2 (-1: the call does not remove, or does not place).
Note(name, m, p1, p2) ==
    LET mid == IF p1 # -1 THEN RemovePieceBit(b, m, p1) ELSE b
    IN  /\ calls' = calls + 1
        /\ misuse' =
              [place  |-> misuse.place \/ (p2 # -1 /\ HeldByOther(mid, m, p2)),
               remove |-> misuse.remove \/ (p1 # -1 /\ HeldByOther(b, m, p1))]
        /\ last' = [op |-> name, m |-> m, from |-> p1, to |-> p2]
        /\ got' = got
        /\ rt' =
              IF name = "PlacePieceBit" /\ IsEmpty(b, p2)
              THEN [stage |-> "placed", m |-> m, p |-> p2,
                    bm |-> b.Bitmaps[m + 1], occ |-> b.Occupied]
              ELSE IF /\ name = "RemovePieceBit" /\ rt.stage = "placed"
                      /\ rt.m = m /\ rt.p = p1
              THEN [rt EXCEPT !.stage = "removed"]
              ELSE NoRT
        /\ UNCHANGED <<newVars, coordVars, bitVars>>

CallPlacePieceBit ==
    /\ got = NoGot /\ calls < MaxCalls
    /\ \E k \in Diag(b) : \E m \in CatInputs(b, DiagBit(b, k)) :
            /\ b' = PlacePieceBit(b, m, DiagBit(b, k))
            /\ Note("PlacePieceBit", m, -1, DiagBit(b, k))

CallPlacePieceCartesian ==
    /\ got = NoGot /\ calls < MaxCalls
    /\ \E k \in Diag(b) : \E m \in CatInputs(b, DiagBit(b, k)) :
            /\ b' = PlacePieceCartesian(b, m, DiagCartesian(k)[1], DiagCartesian(k)[2])
            /\ Note("PlacePieceCartesian", m, -1, DiagBit(b, k))

CallPlacePieceAlgebraic ==
    /\ got = NoGot /\ calls < MaxCalls
    /\ \E k \in Diag(b) : \E m \in CatInputs(b, DiagBit(b, k)) :
            /\ b' = PlacePieceAlgebraic(b, m, DiagAlgebraic(k))
            /\ Note("PlacePieceAlgebraic", m, -1, DiagBit(b, k))

CallRemovePieceBit ==
    /\ got = NoGot /\ calls < MaxCalls
    /\ \E k \in Diag(b) : \E m \in CatInputs(b, DiagBit(b, k)) :
            /\ b' = RemovePieceBit(b, m, DiagBit(b, k))
            /\ Note("RemovePieceBit", m, DiagBit(b, k), -1)

CallRemovePieceCartesian ==
    /\ got = NoGot /\ calls < MaxCalls
    /\ \E k \in Diag(b) : \E m \in CatInputs(b, DiagBit(b, k)) :
            /\ b' = RemovePieceCartesian(b, m, DiagCartesian(k)[1], DiagCartesian(k)[2])
            /\ Note("RemovePieceCartesian", m, DiagBit(b, k), -1)

CallRemovePieceAlgebraic ==
    /\ got = NoGot /\ calls < MaxCalls
    /\ \E k \in Diag(b) : \E m \in CatInputs(b, DiagBit(b, k)) :
            /\ b' = RemovePieceAlgebraic(b, m, DiagAlgebraic(k))
            /\ Note("RemovePieceAlgebraic", m, DiagBit(b, k), -1)

CallMovePieceBit ==
    /\ got = NoGot /\ calls < MaxCalls
    /\ \E k1 \in Diag(b), k2 \in Diag(b) : \E m \in CatInputs(b, DiagBit(b, k1)) :
            /\ b' = MovePieceBit(b, m, DiagBit(b, k1), DiagBit(b, k2))
            /\ Note("MovePieceBit", m, DiagBit(b, k1), DiagBit(b, k2))

CallMovePieceCartesian ==
    /\ got = NoGot /\ calls < MaxCalls
    /\ \E k1 \in Diag(b), k2 \in Diag(b) : \E m \in CatInputs(b, DiagBit(b, k1)) :
            /\ b' = MovePieceCartesian(b, m, DiagCartesian(k1)[1], DiagCartesian(k1)[2],
                                       DiagCartesian(k2)[1], DiagCartesian(k2)[2])
            /\ Note("MovePieceCartesian", m, DiagBit(b, k1), DiagBit(b, k2))

CallMovePieceAlgebraic ==
    /\ got = NoGot /\ calls < MaxCalls
    /\ \E k1 \in Diag(b), k2 \in Diag(b) : \E m \in CatInputs(b, DiagBit(b, k1)) :
            /\ b' = MovePieceAlgebraic(b, m, DiagAlgebraic(k1), DiagAlgebraic(k2))
            /\ Note("MovePieceAlgebraic", m, DiagBit(b, k1), DiagBit(b, k2))

\* GetBitmapIndex(p), on the board as the calls made so far left it
CallGetBitmapIndex ==
    /\ got = NoGot
    /\ \E k \in Diag(b) :
        /\ got' = [p |-> DiagBit(b, k), i |-> GetBitmapIndex(b, DiagBit(b, k)),
                   at |-> GetBitmapIndexReturn(b, DiagBit(b, k))]
        /\ UNCHANGED <<b, calls, misuse, rt, last>>
        /\ UNCHANGED <<newVars, coordVars, bitVars>>

Init ==
    /\ b \in Presets
    /\ calls = 0
    /\ misuse = [place |-> FALSE, remove |-> FALSE]
    /\ rt = NoRT
    /\ last = NoCall
    /\ got = NoGot
    /\ NewIdle /\ CoordIdle /\ BitIdle

Next ==
    \/ CallPlacePieceBit
    \/ CallPlacePieceCartesian
    \/ CallPlacePieceAlgebraic
    \/ CallRemovePieceBit
    \/ CallRemovePieceCartesian
    \/ CallRemovePieceAlgebraic
    \/ CallMovePieceBit
    \/ CallMovePieceCartesian
    \/ CallMovePieceAlgebraic
    \/ CallGetBitmapIndex

Spec == Init /\ [][Next]_vars

-----------------------------------------------------------------------------
(* SpecNew: calls of New(ranks, files).                                    *)

Dims == (-MaxDim) .. MaxDim

CallNew ==
    \E ranks \in Dims, files \in Dims :
        /\ args' = <<ranks, files>>
        /\ ret' = New(ranks, files)
        /\ UNCHANGED <<boardVars, coordVars, bitVars>>

InitNew == NewIdle /\ BoardIdle /\ CoordIdle /\ BitIdle

NextNew == CallNew

SpecNew == InitNew /\ [][NextNew]_vars

-----------------------------------------------------------------------------
(* SpecCoord: the coordinate conversions, applied one after another to a   *)
(* valid square of a valid board extent.  hist holds the square in every   *)
(* coordinate system it went through: [cs, v] with v a bit index, an       *)
(* <<x, y>> pair or an algebraic string.                                   *)

Extents ==
    { d \in [ranks : 1..MaxSquares, files : 1..Len(symbols)] :
        d.ranks * d.files <= MaxSquares }

Cur == hist[Len(hist)]

Convert(from, to, v) ==
    /\ Len(hist) <= MaxConv
    /\ Cur.cs = from
    /\ hist' = Append(hist, [cs |-> to, v |-> v])
    /\ UNCHANGED <<dims, boardVars, newVars, bitVars>>

CallCartesianToBit ==
    Convert("cartesian", "bit", CartesianToBit(Cur.v[1], Cur.v[2], dims.files))

CallCartesianToAlgebraic ==
    Convert("cartesian", "algebraic",
            CartesianToAlgebraic(Cur.v[1], Cur.v[2], dims.files))

CallBitToCartesian ==
    Convert("bit", "cartesian", BitToCartesian(Cur.v, dims.files))

CallBitToAlgebraic ==
    Convert("bit", "algebraic", BitToAlgebraic(Cur.v, dims.files))

CallAlgebraicToCartesian ==
    Convert("algebraic", "cartesian", AlgebraicToCartesian(Cur.v, dims.files))

CallAlgebraicToBit ==
    Convert("algebraic", "bit", AlgebraicToBit(Cur.v, dims.files))

InitCoord ==
    /\ dims \in Extents
    /\ \/ \E x \in 0..(dims.files - 1), y \in 0..(dims.ranks - 1) :
             hist = <<[cs |-> "cartesian", v |-> <<x, y>>]>>
       \/ \E p \in 0..(dims.ranks * dims.files - 1) :
             hist = <<[cs |-> "bit", v |-> p]>>
    /\ BoardIdle /\ NewIdle /\ BitIdle

NextCoord ==
    \/ CallCartesianToBit
    \/ CallCartesianToAlgebraic
    \/ CallBitToCartesian
    \/ CallBitToAlgebraic
    \/ CallAlgebraicToCartesian
    \/ CallAlgebraicToBit

SpecCoord == InitCoord /\ [][NextCoord]_vars

-----------------------------------------------------------------------------
(* SpecBits: the bit operations, the population count and the flips and    *)
(* rotations, applied to one 64-bit word.                                  *)

\* the words a run starts from
Seeds ==
    { Zero, AllOnes, NewChessBoard.Occupied, NewCheckersBoard.Bitmaps[1],
      NewOthelloBoard.Bitmaps[1] }

\* SetBit, ClearBit and ToggleBit change the word in place
Edit(w) ==
    /\ edits < MaxEdits
    /\ out = NoResult
    /\ i' = w
    /\ edits' = edits + 1
    /\ UNCHANGED <<out, boardVars, newVars, coordVars>>

\* The other functions take the word by value and return a result.  A call
\* made while a result is held leads to a state the same call reaches from
\* the word alone, so calls are taken from there.
Result(name, v) ==
    /\ out = NoResult
    /\ out' = [fn |-> name, val |-> v]
    /\ UNCHANGED <<i, edits, boardVars, newVars, coordVars>>

CallSetBit == \E p \in Positions : Edit(SetBit(i, p))

CallClearBit == \E p \in Positions : Edit(ClearBit(i, p))

CallToggleBit == \E p \in Positions : Edit(ToggleBit(i, p))

CallPopCount == Result("PopCount", PopCount(i))

CallFlipVertical == Result("FlipVertical", FlipVertical(i))

CallFlipHorizontal == Result("FlipHorizontal", FlipHorizontal(i))

CallFlipDiagonalA1H8 == Result("FlipDiagonalA1H8", FlipDiagonalA1H8(i))

CallFlipDiagonalA8H1 == Result("FlipDiagonalA8H1", FlipDiagonalA8H1(i))

CallRotate180 == Result("Rotate180", Rotate180(i))

CallRotate90 == Result("Rotate90", Rotate90(i))

CallRotate270 == Result("Rotate270", Rotate270(i))

InitBits ==
    /\ i \in Seeds
    /\ out = NoResult
    /\ edits = 0
    /\ BoardIdle /\ NewIdle /\ CoordIdle

NextBits ==
    \/ CallSetBit
    \/ CallClearBit
    \/ CallToggleBit
    \/ CallPopCount
    \/ CallFlipVertical
    \/ CallFlipHorizontal
    \/ CallFlipDiagonalA1H8
    \/ CallFlipDiagonalA8H1
    \/ CallRotate180
    \/ CallRotate90
    \/ CallRotate270

SpecBits == InitBits /\ [][NextBits]_vars

-----------------------------------------------------------------------------
(* Claims about the aggregate (Spec).                                      *)

\* no bit is set in two category bitmaps
Disjoint(bd) ==
    \A j \in Cats(bd), k \in Cats(bd) :
        j # k => And(bd.Bitmaps[j + 1], bd.Bitmaps[k + 1]) = Zero

\* C1, as claimed: in every state reachable from a preset by in-range place,
\* remove and move calls, Occupied is the bitwise OR of all category bitmaps.
C1_OccupiedIsUnion == b.Occupied = Union(b.Bitmaps)

\* C1, amended: Occupied is the bitwise OR of all category bitmaps in every
\* state reached by calls none of which removed (RemovePiece*, or the remove
\* half of MovePiece*) category m from a square that another category's
\* bitmap held at that moment.
C1_OccupiedIsUnionWhenRemovesAreOwn ==
    ~misuse.remove => b.Occupied = Union(b.Bitmaps)

\* C1 witness: two calls were made, the last a remove that left the square to
\* no other category, after a place onto a square another category held.
C1_Witness ==
    /\ ~misuse.remove /\ misuse.place
    /\ last.op = "RemovePieceBit"
    /\ b.Occupied # NewChessBoard.Occupied /\ Len(b.Bitmaps) = 12

\* C2, as claimed: in every state reachable from a preset by in-range place,
\* remove and move calls, no bit is set in two different category bitmaps.
C2_AtMostOnePiece == Disjoint(b)

\* C2, amended: no bit is set in two different category bitmaps in every state
\* reached by calls none of which placed (PlacePiece*, or the place half of
\* MovePiece*) category m on a square that another category's bitmap held at
\* that moment.
C2_AtMostOnePieceWhenPlacesAreFree ==
    ~misuse.place => Disjoint(b)

\* C2 witness: a move of a piece to another, free square has acted, after a
\* remove that named a category not holding the square.
C2_Witness ==
    /\ ~misuse.place /\ misuse.remove
    /\ last.op = "MovePieceCartesian" /\ last.from # last.to
    /\ IsBitSet(b.Bitmaps[last.m + 1], last.to)

\* C10: PlacePieceBit(m, p) on an empty square followed by RemovePieceBit(m, p)
\* leaves Bitmaps[m] and Occupied as they were before the place: for the pair
\* of calls just made, and for every empty square of the board reached and
\* every category a call names (a board is reached before it is looked up).
C10_PlaceRemoveRoundTrip ==
    /\ rt.stage = "removed" =>
          b.Bitmaps[rt.m + 1] = rt.bm /\ b.Occupied = rt.occ
    /\ got = NoGot =>
          \A p \in Squares(b) \ Union(b.Bitmaps) :
            IsEmpty(b, p) =>
              \A m \in CatInputs(b, p) :
                LET after == RemovePieceBit(PlacePieceBit(b, m, p), m, p)
                IN  /\ after.Bitmaps[m + 1] = b.Bitmaps[m + 1]
                    /\ after.Occupied = b.Occupied

\* C10 witness: a piece was placed on an empty square of a board that holds
\* pieces, and removed again.
C10_Witness ==
    /\ rt.stage = "removed"
    /\ rt.occ # Zero
    /\ b.Occupied = rt.occ

\* the board holds no piece: every category bitmap and Occupied are zero
NoPieces(bd) ==
    /\ bd.Occupied = {}
    /\ \A k \in Cats(bd) : bd.Bitmaps[k + 1] = {}

\* on board bd, category cat has left bit pf and holds bit pt
Moved(bd, cat, pf, pt) ==
    /\ pf \notin bd.Bitmaps[cat + 1] /\ pf \notin bd.Occupied
    /\ pt \in bd.Bitmaps[cat + 1] /\ pt \in bd.Occupied
    /\ GetBitmapIndex(bd, pt) = cat
    /\ GetBitmapIndex(bd, pf) = -1

\* C11, for the empty presets: MovePieceAlgebraic(cat, from, to) of any
\* category between any two distinct squares of the board, named in algebraic
\* notation, leaves from clear and to set in Bitmaps[cat] and in Occupied,
\* GetBitmapIndex(to) = cat and GetBitmapIndex(from) = -1.
C11_EveryPair ==
    (calls = 0 /\ NoPieces(b)) =>
        \A cat \in Cats(b) :
          \A x1 \in 0..(b.Files - 1), y1 \in 0..(b.Ranks - 1) :
            \A x2 \in 0..(b.Files - 1), y2 \in 0..(b.Ranks - 1) :
              <<x1, y1>> # <<x2, y2>> =>
                Moved(MovePieceAlgebraic(b, cat,
                          <<symbols[x1 + 1], Digits[y1 + 2]>>,
                          <<symbols[x2 + 1], Digits[y2 + 2]>>),
                      cat, y1 * b.Files + x1, y2 * b.Files + x2)

\* C11, for the calls made: a MovePieceAlgebraic call between two distinct
\* squares on a board that holds no piece leaves the board as claimed.
C11_CallMade ==
    (last'.op = "MovePieceAlgebraic" /\ last'.from # last'.to /\ NoPieces(b))
        => Moved(b', last'.m, last'.from, last'.to)

\* C11: on a board with no pieces, after MovePieceAlgebraic(cat, from, to)
\* with from # to, the bit of from is clear and the bit of to is set in
\* Bitmaps[cat] and in Occupied, GetBitmapIndex(bit of to) = cat and
\* GetBitmapIndex(bit of from) = -1.
C11_MoveOnEmptyBoard == [](C11_EveryPair) /\ [][C11_CallMade]_vars

\* C11 witness: on the connect-four board, emptied again by a remove, the
\* last category was moved from a1 to b2 by MovePieceAlgebraic.
C11_Witness ==
    /\ last.op = "MovePieceAlgebraic" /\ last.from = 0 /\ last.to = 8
    /\ last.m = 1 /\ calls = 2
    /\ b.Files = 7
    /\ b.Occupied = {8} /\ b.Bitmaps = <<{}, {8}>>

\* the lowest index of a category bitmap that has bit p set, -1 if none has
FirstMatch(bd, p) ==
    LET H == { k \in Cats(bd) : p \in bd.Bitmaps[k + 1] }
    IN  IF H = {} THEN -1 ELSE CHOOSE k \in H : \A j \in H : k <= j

\* GetBitmapIndex gives the first match of the plain scan: the call made, for
\* a square the calls before it address, and a call for any square of a
\* preset as constructed (the calls leave the other squares as they were)
GivesFirstMatch ==
    /\ got.at # "none" =>
          /\ got.i = FirstMatch(b, got.p)
          /\ got.i = Board64GetBitmapIndex(b, got.p)
    /\ (calls = 0 /\ got = NoGot) =>
          \A p \in Squares(b) : GetBitmapIndex(b, p) = FirstMatch(b, p)

\* C12, as claimed: in every state reachable from a preset by in-range place,
\* remove and move calls, GetBitmapIndex(p) is the lowest index of a bitmap
\* that has bit p set, and -1 only when none has; it is what the scan without
\* the Occupied test returns.
C12_IndexIsFirstMatch == GivesFirstMatch

\* C12, amended: GetBitmapIndex(p) is the lowest index of a bitmap that has
\* bit p set, and -1 only when none has, in every state reached by calls none
\* of which removed category m from a square that another category's bitmap
\* held at that moment.
C12_IndexIsFirstMatchWhenRemovesAreOwn == ~misuse.remove => GivesFirstMatch

\* C12 witness: on the chess board the last category was placed on b2, which
\* the white pawns hold, and GetBitmapIndex(9) returned the pawns' index 5.
C12_Witness ==
    /\ ~misuse.remove
    /\ got = [p |-> 9, i |-> 5, at |-> "match"]
    /\ 9 \in b.Bitmaps[6] /\ 9 \in b.Bitmaps[12]

\* the board is the one a preset constructor with these symbols returned
FreshFrom(syms) == calls = 0 /\ b.Symbols = syms

\* rooks, knights, bishops, queen, king and pawns of one side
PieceCounts == <<2, 2, 2, 1, 1, 8>>

\* C13: the board NewChessBoard returns has 32 bits set in Occupied, and for
\* each side 2 rook, 2 knight, 2 bishop, 1 queen, 1 king and 8 pawn bits.
C13_ChessPieceCounts ==
    FreshFrom(<<"R", "N", "B", "Q", "K", "P", "r", "n", "b", "q", "k", "p">>) =>
        /\ Cardinality(b.Occupied) = 32
        /\ PopCount(b.Occupied) = 32
        /\ Len(b.Bitmaps) = 12
        /\ \A k \in 1..6 :
              /\ Cardinality(b.Bitmaps[k]) = PieceCounts[k]
              /\ Cardinality(b.Bitmaps[k + 6]) = PieceCounts[k]

\* C13 witness: the chess board as constructed, kings on e1 and e8.
C13_Witness ==
    /\ FreshFrom(<<"R", "N", "B", "Q", "K", "P", "r", "n", "b", "q", "k", "p">>)
    /\ got = NoGot
    /\ b.Bitmaps[5] = {4} /\ b.Bitmaps[11] = {60}

\* C14: the board each of the six preset constructors returns has Ranks > 0,
\* Files > 0, Ranks * Files <= 64, as many symbols as bitmaps, pairwise
\* disjoint bitmaps, Occupied equal to their union, and no bit at or above
\* Ranks * Files set in a bitmap or in Occupied.
C14_PresetsSatisfyInvariants ==
    calls = 0 =>
        /\ b.Ranks > 0 /\ b.Files > 0 /\ b.Ranks * b.Files <= 64
        /\ Len(b.Symbols) = Len(b.Bitmaps)
        /\ \A j \in 1..Len(b.Bitmaps), k \in 1..Len(b.Bitmaps) :
              j # k => b.Bitmaps[j] \cap b.Bitmaps[k] = {}
        /\ b.Occupied = UNION { b.Bitmaps[k] : k \in 1..Len(b.Bitmaps) }
        /\ \A k \in 1..Len(b.Bitmaps) :
              b.Bitmaps[k] \subseteq 0..(b.Ranks * b.Files - 1)
        /\ b.Occupied \subseteq 0..(b.Ranks * b.Files - 1)

\* C14 witness: the checkers board as constructed, twelve pieces a side, and
\* the connect-four board as constructed, 6 ranks of 7 files and no piece.
C14_Witness ==
    /\ calls = 0 /\ got = NoGot
    /\ \/ /\ b.Symbols = <<"R", "W">>
          /\ Cardinality(b.Bitmaps[1]) = 12 /\ Cardinality(b.Occupied) = 24
       \/ /\ b.Symbols = <<"R", "Y">>
          /\ b.Ranks = 6 /\ b.Files = 7 /\ b.Occupied = {}

\* boards bd1 and bd2 differ at most in the bits ps of Bitmaps[m] and Occupied
SameExcept(bd1, bd2, m, ps) ==
    /\ DOMAIN bd2.Bitmaps = DOMAIN bd1.Bitmaps
    /\ \A k \in Cats(bd1) : k # m => bd2.Bitmaps[k + 1] = bd1.Bitmaps[k + 1]
    /\ bd2.Bitmaps[m + 1] \ ps = bd1.Bitmaps[m + 1] \ ps
    /\ bd2.Occupied \ ps = bd1.Occupied \ ps
    /\ bd2.Symbols = bd1.Symbols
    /\ bd2.Ranks = bd1.Ranks /\ bd2.Files = bd1.Files

\* C17: a call of PlacePieceBit(m, p), RemovePieceBit(m, p) or
\* MovePieceBit(m, p1, p2) changes nothing but bit p (bits p1 and p2) of
\* Bitmaps[m] and of Occupied: the other bitmaps, the other bits, Symbols,
\* Ranks and Files stay as they are.
C17_OnlyTheNamedBitsChange ==
    [][ (/\ calls' = calls + 1
         /\ last'.op \in {"PlacePieceBit", "RemovePieceBit", "MovePieceBit"})
        => SameExcept(b, b', last'.m, {last'.from, last'.to}) ]_vars

\* C17 witness: on the chess board MovePieceBit moved the white pawn of b2 to
\* a1; the rook of a1 is still in its bitmap.
C17_Witness ==
    /\ last = [op |-> "MovePieceBit", m |-> 5, from |-> 9, to |-> 0]
    /\ calls = 1
    /\ b.Bitmaps[1] = {0, 7}
    /\ b.Bitmaps[6] = {0, 8, 10, 11, 12, 13, 14, 15}

\* C18: in every state reachable from a preset by in-range place, remove and
\* move calls, misused ones included, every bit set in Occupied is set in at
\* least one category bitmap; so GetBitmapIndex(p) returns -1 exactly when bit
\* p of Occupied is 0, and never leaves by its last return, "not found": for
\* the call made, for a square the calls before it address, and for a call
\* for any square of a preset as constructed.
C18_OccupiedBitsAreHeld ==
    /\ \A p \in b.Occupied : \E k \in 1..Len(b.Bitmaps) : p \in b.Bitmaps[k]
    /\ got.at # "none" =>
          /\ got.at # "not found"
          /\ got.i = -1 <=> got.p \notin b.Occupied
    /\ (calls = 0 /\ got = NoGot) =>
          \A p \in Squares(b) :
              /\ GetBitmapIndexReturn(b, p) # "not found"
              /\ GetBitmapIndex(b, p) = -1 <=> p \notin b.Occupied

\* C18 witness: after a remove that named a category not holding the square
\* and a place onto a square another category held, GetBitmapIndex found a
\* piece on the square of the place.
C18_Witness ==
    /\ misuse.remove /\ misuse.place
    /\ got.at = "match" /\ got.p = last.to
    /\ b.Occupied # UNION { b.Bitmaps[k] : k \in 1..Len(b.Bitmaps) }

-----------------------------------------------------------------------------
(* Claims about New (SpecNew).                                             *)

\* C3, as claimed: New returns an error exactly when ranks <= 0, or
\* files <= 0, or ranks * files > 64.
C3_ErrorIffInvalid ==
    (ret.err # <<>>) <=>
        (args[1] <= 0 \/ args[2] <= 0 \/ args[1] * args[2] > MaxSquares)

\* C4, as claimed: whenever New reports an error the returned board is nil, so
\* no board with Ranks * Files > 64 is handed out.
C4_NoBoardOnError ==
    ret.err # <<>> =>
        /\ ret.b = <<>>
        /\ \A k \in 1..Len(ret.b) : ret.b[k].Ranks * ret.b[k].Files <= MaxSquares

-----------------------------------------------------------------------------
(* Claims about the coordinate conversions (SpecCoord).                    *)

\* hist went through the coordinate systems c1, c2, c3, in that order
Went(c1, c2, c3) ==
    /\ Len(hist) = 3
    /\ hist[1].cs = c1 /\ hist[2].cs = c2 /\ hist[3].cs = c3

\* C5, as claimed: for files <= 8 and every valid square (x, y) of a board of
\* at most 64 squares, CartesianToAlgebraic then AlgebraicToCartesian gives
\* (x, y) back.
C5_AlgebraicRoundTrip ==
    Went("cartesian", "algebraic", "cartesian") => hist[3].v = hist[1].v

\* C6: for files in {3, 7, 8} and every valid square and bit of a board of at
\* most 64 squares, CartesianToBit then BitToCartesian gives (x, y) back, and
\* BitToCartesian then CartesianToBit gives p back.
C6_BitRoundTrip ==
    dims.files \in {3, 7, 8} =>
        /\ Went("cartesian", "bit", "cartesian") => hist[3].v = hist[1].v
        /\ Went("bit", "cartesian", "bit") => hist[3].v = hist[1].v

\* C6 witness: the last square of the 6x7 board, bit 41, went to (6, 5) and
\* back, and the square (2, 20) of the 21x3 board went to bit 62 and back.
C6_Witness ==
    \/ /\ dims = [ranks |-> 6, files |-> 7]
       /\ Went("bit", "cartesian", "bit")
       /\ hist[1].v = 41 /\ hist[2].v = <<6, 5>>
    \/ /\ dims = [ranks |-> 21, files |-> 3]
       /\ Went("cartesian", "bit", "cartesian")
       /\ hist[1].v = <<2, 20>> /\ hist[2].v = 62

\* the square hist started from, as (x, y), on the 8-file board
Start8 ==
    IF hist[1].cs = "cartesian" THEN hist[1].v
    ELSE <<hist[1].v % 8, hist[1].v \div 8>>

\* C7: on the 8x8 board every conversion lands on the same square: the bit is
\* 8y + x, the algebraic string is the (x+1)-th letter of a..h followed by the
\* digit y+1; so a1 = 0, g3 = 22, e4 = 28, d5 = 35.
C7_EightFileAgreement ==
    /\ dims = [ranks |-> 8, files |-> 8] =>
          LET x == Start8[1]
              y == Start8[2]
          IN  \A k \in 1..Len(hist) :
                /\ hist[k].cs = "bit" => hist[k].v = 8 * y + x
                /\ hist[k].cs = "cartesian" => hist[k].v = <<x, y>>
                /\ hist[k].cs = "algebraic" =>
                      hist[k].v = <<symbols[x + 1], Digits[y + 2]>>
    /\ CartesianToBit(0, 0, 8) = 0  /\ AlgebraicToBit(<<"a", "1">>, 8) = 0
    /\ CartesianToBit(6, 2, 8) = 22 /\ AlgebraicToBit(<<"g", "3">>, 8) = 22
    /\ CartesianToBit(4, 3, 8) = 28 /\ AlgebraicToBit(<<"e", "4">>, 8) = 28
    /\ CartesianToBit(3, 4, 8) = 35 /\ AlgebraicToBit(<<"d", "5">>, 8) = 35

\* C7 witness: on the 8x8 board (6, 2) was converted to g3 and g3 to bit 22.
C7_Witness ==
    /\ dims = [ranks |-> 8, files |-> 8]
    /\ Went("cartesian", "algebraic", "bit")
    /\ hist[1].v = <<6, 2>> /\ hist[2].v = <<"g", "3">> /\ hist[3].v = 22

\* the rows of the table in the Bitboard doc comment: positions said to be
\* equivalent on an 8x8 board
DocTable ==
    { [bit |-> 0,  algebraic |-> <<"a", "1">>, cartesian |-> <<0, 0>>],
      [bit |-> 22, algebraic |-> <<"g", "3">>, cartesian |-> <<6, 2>>],
      [bit |-> 28, algebraic |-> <<"e", "4">>, cartesian |-> <<4, 4>>],
      [bit |-> 35, algebraic |-> <<"d", "5">>, cartesian |-> <<3, 4>>] }

\* C15, as claimed: on the 8x8 board, for each row of the doc comment's table,
\* CartesianToBit of the row's Cartesian pair and AlgebraicToBit of the row's
\* algebraic string both give the row's bit.
C15_DocTableRows ==
    dims = [ranks |-> 8, files |-> 8] =>
        \A row \in DocTable : \A k \in 1..(Len(hist) - 1) :
            /\ (/\ hist[k].cs = "cartesian" /\ hist[k].v = row.cartesian
                /\ hist[k + 1].cs = "bit") => hist[k + 1].v = row.bit
            /\ (/\ hist[k].cs = "algebraic" /\ hist[k].v = row.algebraic
                /\ hist[k + 1].cs = "bit") => hist[k + 1].v = row.bit

-----------------------------------------------------------------------------
(* Claims about the bit operations (SpecBits).                             *)

\* C8: PopCount of a word is the number of its 1 bits; PopCount(0) = 0 and
\* PopCount(0xFFFFFFFFFFFFFFFF) = 64.
C8_PopCountIsBitCount ==
    out.fn = "PopCount" =>
        /\ out.val = Cardinality(i)
        /\ i = Zero => out.val = 0
        /\ i = AllOnes => out.val = 64

\* C8 witness: PopCount was called on the chess occupancy with one more bit
\* set, and returned 33.
C8_Witness ==
    /\ out.fn = "PopCount" /\ out.val = 33
    /\ NewChessBoard.Occupied \subseteq i

\* C9: FlipVertical, FlipHorizontal and Rotate180 applied twice, and Rotate90
\* applied four times, give the board back.
C9_Involutions ==
    /\ out.fn = "FlipVertical" => FlipVertical(out.val) = i
    /\ out.fn = "FlipHorizontal" => FlipHorizontal(out.val) = i
    /\ out.fn = "Rotate180" => Rotate180(out.val) = i
    /\ out.fn = "Rotate90" => Rotate90(Rotate90(Rotate90(out.val))) = i

\* C9 witness: Rotate90 was called on a board it does not leave in place.
C9_Witness ==
    /\ out.fn = "Rotate90"
    /\ out.val # i
    /\ i = SetBit(NewCheckersBoard.Bitmaps[1], 0)

\* where the transform fn is said to move the square (x, y) of the 8x8 grid
Geometry(fn, x, y) ==
    CASE fn = "FlipVertical"     -> <<x, 7 - y>>
      [] fn = "FlipHorizontal"   -> <<7 - x, y>>
      [] fn = "FlipDiagonalA1H8" -> <<y, x>>
      [] fn = "FlipDiagonalA8H1" -> <<7 - y, 7 - x>>
      [] fn = "Rotate180"        -> <<7 - x, 7 - y>>
      [] fn = "Rotate90"         -> <<y, 7 - x>>
      [] fn = "Rotate270"        -> <<7 - y, x>>

Transforms ==
    { "FlipVertical", "FlipHorizontal", "FlipDiagonalA1H8", "FlipDiagonalA8H1",
      "Rotate180", "Rotate90", "Rotate270" }

\* C16: with bit 8y + x at square (x, y), the board a transform returns has a
\* piece exactly on the squares the pieces of its argument are moved to:
\* FlipVertical moves (x, y) to (x, 7-y), FlipHorizontal to (7-x, y),
\* FlipDiagonalA1H8 to (y, x), FlipDiagonalA8H1 to (7-y, 7-x), Rotate180 to
\* (7-x, 7-y), Rotate90 to (y, 7-x) and Rotate270 to (7-y, x).
C16_GeometricPermutations ==
    out.fn \in Transforms =>
        out.val = { 8 * Geometry(out.fn, p % 8, p \div 8)[2]
                      + Geometry(out.fn, p % 8, p \div 8)[1] : p \in i }

\* C16 witness: Rotate90 was called on the board with the single piece g3 and
\* returned the board with the single piece c2.
C16_Witness ==
    /\ out.fn = "Rotate90"
    /\ i = {22} /\ out.val = {10}

====
